---- MODULE Spec2Model ----
(***************************************************************************)
(* RevoltDevBot: the owner-only developer console of a Revolt chat bot.    *)
(*                                                                         *)
(*   src/revoltbot/__main__.py  start-up, send, the on_message router      *)
(*   src/revoltbot/dev.py       pagify, Dev.sanitize_output,               *)
(*                              Dev.maybe_await, Dev.eval, Dev.debug       *)
(*                                                                         *)
(* A text is a sequence of one-character strings.  A Python name that may  *)
(* be unbound or None holds None (the empty tuple) or Some(x) (<<x>>).     *)
(***************************************************************************)
EXTENDS Integers, Sequences, FiniteSets, TLC

VARIABLES
    \* ---- pagify (the generator's frame, dev.py 38-62)
    in_text,        \* remaining text
    delims,         \* sequence of delimiter texts
    priority,       \* priority mode
    page_length,    \* page_length (from line 47 on: less shorten_by)
    shorten_by,     \* shorten_by
    closest_delim,  \* the split point of the last iteration (None before)
    to_send,        \* the chunk cut by the last iteration
    pg_pc,          \* position of the generator
    pages,          \* chunks the consumer has received, in order
    \* ---- the process (__main__.py)
    boot,           \* position of module start-up / main()
    PREFIX,         \* os.environ["REVOLTBOT_PREFIX"]
    client,         \* authentication data of the constructed Client, or None
    connects,       \* calls of client.start()
    closes,         \* calls of client.close() made by on_message
    \* ---- one on_message invocation
    hpc,            \* position of the handler
    msg,            \* event.message
    handled,        \* messages dispatched so far
    sent,           \* contents POSTed by send() during this invocation
    \* ---- the console (Dev)
    last_result,    \* Dev._last_result
    result,         \* local "result" of eval / debug
    printed,        \* local "printed" (stdout, then stdout + traceback)
    exc,            \* class of the exception in flight, or None
    evaluated,      \* debug: the value of eval(compiled, env)
    coro,           \* maybe_await: local "coro"
    i,              \* maybe_await: loop counter
    awaits,         \* maybe_await: awaits performed
    produced,       \* the text eval / debug built for the channel
    content,        \* the argument of send_blocks
    \* ---- Dev.sanitize_output called on its own
    input_,
    output

pgVars   == <<in_text, delims, priority, page_length, shorten_by, closest_delim, to_send, pg_pc, pages>>
bootVars == <<boot, PREFIX, client, connects, closes>>
hVars    == <<hpc, msg, handled, sent>>
devVars  == <<last_result, result, printed, exc, evaluated, coro, i, awaits, produced, content>>
sanVars  == <<input_, output>>
vars     == <<pgVars, bootVars, hVars, devVars, sanVars>>

None    == <<>>
Some(x) == <<x>>

\* A Python value: a string (final = Some(text)) or None (final = None),
\* wrapped in `layers` awaitables, each resolving to the next one.
PyNone      == [layers |-> 0, final |-> None]
PyStr(t)    == [layers |-> 0, final |-> Some(t)]
NoMessage   == [author_id |-> "", content |-> None]

(***************************************************************************)
(* Bounds of the model.                                                    *)
(***************************************************************************)
MaxTextLen == 4      \* longest text handed to pagify with free parameters
MaxPage    == 3      \* largest page_length tried with free parameters
MaxShorten == 2      \* largest shorten_by tried with free parameters
MaxSanLen  == 6      \* longest text handed to sanitize_output on its own
MaxOver    == 3      \* send_blocks: texts this much shorter / longer than a page
MaxPrefixLen == 2    \* longest REVOLTBOT_PREFIX tried
MaxMsgs    == 2      \* messages dispatched in one run
MaxLayers  == 3      \* deepest chain of awaitables a debug expression yields

(***************************************************************************)
(* Python's str operations, on texts.                                      *)
(***************************************************************************)
Max2(a, b) == IF a >= b THEN a ELSE b
Min2(a, b) == IF a <= b THEN a ELSE b

SetMax(S) == CHOOSE x \in S : \A y \in S : y <= x

IsSpace(c) == c \in {" ", "\n", "\t"}

\* a slice bound, as Python normalises it against a text of length n
SliceIndex(k, n) == IF k < 0 THEN Max2(k + n, 0) ELSE Min2(k, n)

\* s[:k]
SliceTo(s, k) == SubSeq(s, 1, SliceIndex(k, Len(s)))

\* s[k:]
SliceFrom(s, k) == SubSeq(s, SliceIndex(k, Len(s)) + 1, Len(s))

\* s occurs in t at 0-based index k
MatchAt(t, s, k) == /\ k >= 0
                    /\ k + Len(s) <= Len(t)
                    /\ SubSeq(t, k + 1, k + Len(s)) = s

\* len(s.strip()) > 0
NonBlank(s) == \E k \in 1..Len(s) : ~IsSpace(s[k])

\* s.rfind(d, start, end): 0-based index of the last occurrence of d inside
\* s[start:end], or -1
Rfind(s, d, start, end) ==
    LET n  == Len(s)
        lo == IF start < 0 THEN Max2(start + n, 0) ELSE start
        hi == SliceIndex(end, n)
        at == {k \in lo..(hi - Len(d)) : MatchAt(s, d, k)}
    IN  IF lo > hi THEN -1
        ELSE IF at = {} THEN -1
        ELSE SetMax(at)

(***************************************************************************)
(* pagify, dev.py 38-62.                                                   *)
(***************************************************************************)
\* the search of line 50 started at index 0 instead of 1
DelimSearchFrom0(text, ds, this_page_len) ==
    [j \in 1..Len(ds) |-> Rfind(text, ds[j], 0, this_page_len)]

\* line 50: the generator of rfind results, as a sequence
DelimSearch(text, ds, this_page_len) ==
    [j \in 1..Len(ds) |-> Rfind(text, ds[j], 1, this_page_len)]

\* line 52: next((x for x in closest_delim if x > 0), -1)
FirstPositive(found) ==
    IF \E j \in 1..Len(found) : found[j] > 0
    THEN found[CHOOSE j \in 1..Len(found) :
                  /\ found[j] > 0
                  /\ \A k \in 1..(j - 1) : ~(found[k] > 0)]
    ELSE -1

\* line 54: max() of an empty sequence raises ValueError
MaxRaises(ds, prio) == ~prio /\ Len(ds) = 0

\* lines 50-55: the split point
ClosestDelim(text, ds, prio, this_page_len) ==
    LET found == DelimSearch(text, ds, this_page_len)
        c     == IF prio THEN FirstPositive(found)
                 ELSE SetMax({found[j] : j \in 1..Len(found)})
    IN  IF c # -1 THEN c ELSE this_page_len

\* lines 46-47: the generator's first step
PagifyStart ==
    /\ pg_pc = "start"
    /\ page_length' = page_length - shorten_by
    /\ pg_pc' = "while"
    /\ UNCHANGED <<in_text, delims, priority, shorten_by, closest_delim, to_send, pages>>
    /\ UNCHANGED <<bootVars, hVars, devVars, sanVars>>

\* line 48: the loop test
PagifyWhile ==
    /\ pg_pc = "while"
    /\ pg_pc' = IF Len(in_text) > page_length THEN "body" ELSE "tail"
    /\ UNCHANGED <<in_text, delims, priority, page_length, shorten_by, closest_delim, to_send, pages>>
    /\ UNCHANGED <<bootVars, hVars, devVars, sanVars>>

\* lines 49-59: one iteration, up to its yield or back to the loop test
PagifyBody ==
    /\ pg_pc = "body"
    /\ IF MaxRaises(delims, priority)
       THEN /\ pg_pc' = "raised"
            /\ UNCHANGED <<in_text, closest_delim, to_send>>
       ELSE LET c == ClosestDelim(in_text, delims, priority, page_length)
            IN  /\ closest_delim' = Some(c)
                /\ to_send' = SliceTo(in_text, c)
                /\ in_text' = SliceFrom(in_text, c)
                /\ pg_pc' = IF NonBlank(SliceTo(in_text, c)) THEN "yield" ELSE "while"
    /\ UNCHANGED <<delims, priority, page_length, shorten_by, pages>>
    /\ UNCHANGED <<bootVars, hVars, devVars, sanVars>>

\* lines 61-62: the leftover
PagifyTail ==
    /\ pg_pc = "tail"
    /\ IF NonBlank(in_text)
       THEN /\ to_send' = in_text
            /\ pg_pc' = "yield_last"
       ELSE /\ pg_pc' = "done"
            /\ UNCHANGED to_send
    /\ UNCHANGED <<in_text, delims, priority, page_length, shorten_by, closest_delim, pages>>
    /\ UNCHANGED <<bootVars, hVars, devVars, sanVars>>

\* the generator resumes after the consumer took to_send
PagifyResume ==
    pg_pc' = IF pg_pc = "yield" THEN "while" ELSE "done"

\* list(pagify(...)): the consumer takes a chunk
Collect ==
    /\ pg_pc \in {"yield", "yield_last"}
    /\ pages' = Append(pages, to_send)
    /\ PagifyResume
    /\ UNCHANGED <<in_text, delims, priority, page_length, shorten_by, closest_delim, to_send>>
    /\ UNCHANGED <<bootVars, hVars, devVars, sanVars>>

(***************************************************************************)
(* send, __main__.py 62-71, and Dev.send_blocks, dev.py 91-93.             *)
(***************************************************************************)
DefaultPageLength == 2000
DefaultShortenBy  == 12

\* the longest chunk of pagify with its defaults
PageChars == DefaultPageLength - DefaultShortenBy

\* n characters "a", the k-th one a newline (k = 0: no newline)
MkText(n, k) == [j \in 1..n |-> IF j = k THEN "\n" ELSE "a"]

\* "\N{SMILING FACE WITH OPEN MOUTH}", one character
Smiley == "SMILEY"

\* line 69: f"{smiley}\n{content}\n{smiley}"
SendContent(text) == <<Smiley, "\n">> \o text \o <<"\n", Smiley>>

\* the backtick, one character
BQ == "BACKTICK"

\* dev.py 93: the f-string that puts page between the line of three backticks
\* and "py" and the line of three backticks
CodeBlock(page) == <<BQ, BQ, BQ, "p", "y", "\n">> \o page \o <<"\n", BQ, BQ, BQ>>

\* line 92: send_blocks calls pagify(content) with the defaults of lines 40-44
SendBlocksCall ==
    /\ hpc = "send_blocks"
    /\ pg_pc = "idle"
    /\ in_text' = content
    /\ delims' = <<<<"\n">>>>
    /\ priority' = FALSE
    /\ shorten_by' = DefaultShortenBy
    /\ page_length' = DefaultPageLength
    /\ closest_delim' = None
    /\ to_send' = <<>>
    /\ pg_pc' = "start"
    /\ UNCHANGED <<pages, bootVars, hVars, devVars, sanVars>>

\* line 93, through MyDev.send (__main__.py 55-56) and send: one chunk is
\* POSTed, and the generator is resumed
SendPage ==
    /\ hpc = "send_blocks"
    /\ pg_pc \in {"yield", "yield_last"}
    /\ sent' = Append(sent, SendContent(CodeBlock(to_send)))
    /\ PagifyResume
    /\ UNCHANGED <<in_text, delims, priority, page_length, shorten_by, closest_delim, to_send, pages>>
    /\ UNCHANGED <<hpc, msg, handled, bootVars, devVars, sanVars>>

\* the generator is exhausted: send_blocks returns, and so do eval / debug
\* and on_message, which await nothing after it
SendBlocksReturn ==
    /\ hpc = "send_blocks"
    /\ pg_pc = "done"
    /\ hpc' = "returned"
    /\ in_text' = <<>> /\ delims' = <<>> /\ priority' = FALSE
    /\ page_length' = 0 /\ shorten_by' = 0
    /\ closest_delim' = None /\ to_send' = <<>> /\ pg_pc' = "idle"
    /\ UNCHANGED <<pages, msg, handled, sent, bootVars, devVars, sanVars>>

(***************************************************************************)
(* Dev.sanitize_output, dev.py 129-134.                                    *)
(***************************************************************************)
\* REVOLTBOT_TOKEN
TOKEN == <<"T", "k">>

\* "[EXPUNGED]"
Placeholder == <<"[", "E", "X", "P", "U", "N", "G", "E", "D", "]">>

\* re.I, the number of the flag re.IGNORECASE
RE_I == 2

Lower(c) == CASE c = "T" -> "t"
              [] c = "K" -> "k"
              [] OTHER   -> c

LowerText(s) == [k \in 1..Len(s) |-> Lower(s[k])]

\* re.sub(re.escape(pattern), repl, string, count, flags) for a non-empty
\* pattern: the non-overlapping matches are replaced from the left, at most
\* count of them unless count is 0; ignorecase is flags & re.I.  ReSubFrom
\* is the scan from the 1-based position k, n matches replaced so far.
MatchesAt(pattern, string, ignorecase, k) ==
    /\ k + Len(pattern) - 1 <= Len(string)
    /\ IF ignorecase
       THEN LowerText(SubSeq(string, k, k + Len(pattern) - 1)) = LowerText(pattern)
       ELSE SubSeq(string, k, k + Len(pattern) - 1) = pattern

RECURSIVE ReSubFrom(_, _, _, _, _, _, _)
ReSubFrom(pattern, repl, string, count, ignorecase, k, n) ==
    LET hits == {m \in k..Len(string) : MatchesAt(pattern, string, ignorecase, m)}
    IN  IF hits = {} \/ (count # 0 /\ n >= count)
        THEN SubSeq(string, k, Len(string))
        ELSE LET m == CHOOSE x \in hits : \A y \in hits : x <= y
             IN  SubSeq(string, k, m - 1) \o repl
                     \o ReSubFrom(pattern, repl, string, count, ignorecase,
                                   m + Len(pattern), n + 1)

ReSub(pattern, repl, string, count, ignorecase) ==
    ReSubFrom(pattern, repl, string, count, ignorecase, 1, 0)

\* line 132: the token field that is populated
ActiveToken(c) == IF c.token = None THEN c.session_token[1] ELSE c.token[1]

\* line 134: re.sub(re.escape(token), "[EXPUNGED]", input_, re.I); the fourth
\* positional parameter of re.sub is count, and flags keeps its default 0
SanitizeOutput(c, text) == ReSub(ActiveToken(c), Placeholder, text, RE_I, FALSE)

\* t occurs in s
Contains(s, t) == \E k \in 0..Len(s) : MatchAt(s, t, k)

\* t occurs in s in some letter case
ContainsAnyCase(s, t) == Contains(LowerText(s), LowerText(t))

\* sanitize_output(input_) called and returned
SanitizeCall ==
    /\ boot = "sanitize"
    /\ output = None
    /\ output' = Some(SanitizeOutput(client[1], input_))
    /\ UNCHANGED <<input_, pgVars, bootVars, hVars, devVars>>

(***************************************************************************)
(* Module start-up and main(), __main__.py 20-27 and 143-147.              *)
(***************************************************************************)
\* the first position of s that holds no whitespace, Len(s) + 1 if none does
FirstNonSpace(s) ==
    IF NonBlank(s)
    THEN CHOOSE k \in 1..Len(s) :
             /\ ~IsSpace(s[k])
             /\ \A j \in 1..(k - 1) : IsSpace(s[j])
    ELSE Len(s) + 1

\* s.lstrip()
LStrip(s) == SubSeq(s, FirstNonSpace(s), Len(s))

\* the length of the word a text starts with (the text starts with no whitespace)
FirstWordLen(s) ==
    CHOOSE k \in 1..Len(s) :
        /\ \A j \in 1..k : ~IsSpace(s[j])
        /\ k = Len(s) \/ IsSpace(s[k + 1])

\* s.split()
RECURSIVE Split(_)
Split(s) ==
    LET t == LStrip(s)
    IN  IF t = <<>> THEN <<>>
        ELSE <<SubSeq(t, 1, FirstWordLen(t))>>
                 \o Split(SubSeq(t, FirstWordLen(t) + 1, Len(t)))

\* s.split(maxsplit=1)
SplitMax1(s) ==
    LET t == LStrip(s)
    IN  IF t = <<>> THEN <<>>
        ELSE LET w    == FirstWordLen(t)
                 rest == LStrip(SubSeq(t, w + 1, Len(t)))
             IN  IF rest = <<>> THEN <<SubSeq(t, 1, w)>>
                 ELSE <<SubSeq(t, 1, w), rest>>

\* line 21: len(PREFIX.split()) != 1
PrefixRejected(prefix) == Len(Split(prefix)) # 1

\* lines 20-22: the prefix is read and checked; RuntimeError ends the process
CheckPrefix ==
    /\ boot = "env"
    /\ boot' = IF PrefixRejected(PREFIX) THEN "aborted" ELSE "checked"
    /\ UNCHANGED <<PREFIX, client, connects, closes, pgVars, hVars, devVars, sanVars>>

\* lines 24-27: the client is constructed with the token in one of two fields
MakeClient ==
    /\ boot = "checked"
    /\ \E is_user \in BOOLEAN :
          client' = Some(IF is_user
                         THEN [token |-> None, session_token |-> Some(TOKEN)]
                         ELSE [token |-> Some(TOKEN), session_token |-> None])
    /\ boot' = "constructed"
    /\ UNCHANGED <<PREFIX, connects, closes, pgVars, hVars, devVars, sanVars>>

\* line 147: main() runs client.start(), the connection attempt
Start ==
    /\ boot = "constructed"
    /\ connects' = connects + 1
    /\ boot' = "running"
    /\ UNCHANGED <<PREFIX, client, closes, pgVars, hVars, devVars, sanVars>>

(***************************************************************************)
(* on_message, __main__.py 90-117.                                         *)
(***************************************************************************)
\* client._state.user.bot.owner_id
OwnerId == "owner"

Ping         == <<"p", "i", "n", "g">>
Shutdown     == <<"s", "h", "u", "t", "d", "o", "w", "n">>
Eval         == <<"e", "v", "a", "l">>
Debug        == <<"d", "e", "b", "u", "g">>
Pong         == <<"P", "o", "n", "g", "!">>
ShuttingDown == <<"S", "h", "u", "t", "t", "i", "n", "g", " ",
                  "d", "o", "w", "n", ".", ".", ".">>

\* lines 92-117 up to the first await: where the handler goes for message m
Route(prefix, m) ==
    IF m.author_id # OwnerId THEN "returned"
    ELSE IF m.content = None THEN "returned"
    ELSE LET parts   == SplitMax1(m.content[1])
             command == parts[1]
             body    == IF Len(parts) = 2 THEN parts[2] ELSE <<>>
         IN  IF parts = <<>> THEN "returned"
             ELSE IF command = prefix \o Ping THEN "ping_send"
             ELSE IF command = prefix \o Shutdown THEN "shutdown_send"
             ELSE IF body = <<>> THEN "returned"
             ELSE IF command = prefix \o Eval THEN "eval"
             ELSE IF command = prefix \o Debug THEN "debug"
             ELSE "returned"

\* the message contents tried, for the prefix in force
Contents(prefix) ==
    {None} \cup
    { Some(t) : t \in { prefix \o Ping,
                        prefix \o Shutdown,
                        prefix \o Shutdown \o <<" ", "x">>,
                        prefix \o Eval,
                        prefix \o Eval \o <<" ", "x">>,
                        prefix \o Debug \o <<" ", "x">>,
                        <<"!">> \o Shutdown,
                        <<" ">>,
                        <<"x", " ", "y">> } }

\* a MessageEvent is dispatched to on_message: a fresh invocation, run up to
\* its first await (or its return)
OnMessage ==
    /\ boot = "running"
    /\ hpc \in {"idle", "returned", "raised"}
    /\ handled < MaxMsgs
    /\ \E a \in {OwnerId, "other"}, c \in Contents(PREFIX) :
          /\ msg' = [author_id |-> a, content |-> c]
          /\ hpc' = Route(PREFIX, [author_id |-> a, content |-> c])
    /\ handled' = handled + 1
    /\ sent' = <<>>
    /\ result' = PyNone /\ printed' = <<>> /\ exc' = "None" /\ evaluated' = PyNone
    /\ coro' = PyNone /\ i' = 0 /\ awaits' = 0 /\ produced' = <<>> /\ content' = <<>>
    /\ UNCHANGED <<last_result, pgVars, bootVars, sanVars>>

\* line 104
PingSend ==
    /\ hpc = "ping_send"
    /\ sent' = Append(sent, SendContent(Pong))
    /\ hpc' = "returned"
    /\ UNCHANGED <<msg, handled, pgVars, bootVars, devVars, sanVars>>

\* line 107
ShutdownSend ==
    /\ hpc = "shutdown_send"
    /\ sent' = Append(sent, SendContent(ShuttingDown))
    /\ hpc' = "shutdown_close"
    /\ UNCHANGED <<msg, handled, pgVars, bootVars, devVars, sanVars>>

\* lines 108-109
ShutdownClose ==
    /\ hpc = "shutdown_close"
    /\ closes' = closes + 1
    /\ boot' = "closed"
    /\ hpc' = "returned"
    /\ UNCHANGED <<PREFIX, client, connects, msg, handled, sent, pgVars, devVars, sanVars>>

(***************************************************************************)
(* Dev.eval, dev.py 151-184.  What the submitted body does is an input:    *)
(* whether it compiles, what it prints and returns, what it raises.        *)
(* "SyntaxError" is SyntaxError, "Exception" any other class derived from  *)
(* Exception, "BaseException" a class that is not (SystemExit,             *)
(* KeyboardInterrupt, asyncio.CancelledError).                             *)
(***************************************************************************)
ErrTexts    == { <<"E">>, <<"E", " ">> \o TOKEN }   \* error displays and tracebacks
StdoutTexts == { <<>>, <<"o">>, MkText(PageChars + 1, PageChars - 1) }  \* the last: over a page
FinalValues == { None, Some(<<"v">>), Some(TOKEN) }

\* str(v)
Str(v) == IF v.layers > 0 THEN <<"<", "c", "o", "r", "o", ">">>
          ELSE IF v.final = None THEN <<"N", "o", "n", "e">>
          ELSE v.final[1]

\* line 177 with every result stored, None too
EvalStoresAlways(res) == TRUE

\* line 177: result is not None
EvalStores(res) == res # PyNone

\* lines 161-162 succeed
EvalCompiled ==
    /\ hpc = "eval"
    /\ hpc' = "eval_run"
    /\ UNCHANGED <<msg, handled, sent, pgVars, bootVars, devVars, sanVars>>

\* lines 163-165: compile raises SyntaxError; its display goes to send_blocks
EvalSyntaxError ==
    /\ hpc = "eval"
    /\ \E e \in ErrTexts :
          /\ produced' = e
          /\ content' = e
    /\ exc' = "SyntaxError"
    /\ hpc' = "send_blocks"
    /\ UNCHANGED <<last_result, result, printed, evaluated, coro, i, awaits>>
    /\ UNCHANGED <<msg, handled, sent, pgVars, bootVars, sanVars>>

\* lines 160-163: compile raises something that is no SyntaxError (MemoryError,
\* RecursionError, ValueError, ...), which no except clause there catches
EvalCompileRaises ==
    /\ hpc = "eval"
    /\ \E k \in {"Exception", "BaseException"} : exc' = k
    /\ hpc' = "raised"
    /\ UNCHANGED <<last_result, result, printed, evaluated, coro, i, awaits, produced, content>>
    /\ UNCHANGED <<msg, handled, sent, pgVars, bootVars, sanVars>>

\* lines 177-184, up to the call of send_blocks
EvalReport(res, prn) ==
    /\ result' = res
    /\ printed' = prn
    /\ last_result' = IF EvalStores(res) THEN res ELSE last_result
    /\ produced' = IF res # PyNone THEN prn \o Str(res) ELSE prn
    /\ content' = SanitizeOutput(client[1],
                                 IF res # PyNone THEN prn \o Str(res) ELSE prn)
    /\ hpc' = "send_blocks"

\* lines 167-171, 174-175: func() returns
EvalReturns ==
    /\ hpc = "eval_run"
    /\ \E f \in FinalValues, out \in StdoutTexts :
          EvalReport([layers |-> 0, final |-> f], out)
    /\ UNCHANGED <<exc, evaluated, coro, i, awaits>>
    /\ UNCHANGED <<msg, handled, sent, pgVars, bootVars, sanVars>>

\* lines 172-173: func() raises an Exception; result is still None
EvalFails ==
    /\ hpc = "eval_run"
    /\ \E k \in {"SyntaxError", "Exception"} : exc' = k
    /\ \E out \in StdoutTexts, tb \in ErrTexts :
          EvalReport(PyNone, out \o tb)
    /\ UNCHANGED <<evaluated, coro, i, awaits>>
    /\ UNCHANGED <<msg, handled, sent, pgVars, bootVars, sanVars>>

\* lines 169-172: func() raises what "except Exception" does not catch
EvalRunRaises ==
    /\ hpc = "eval_run"
    /\ exc' = "BaseException"
    /\ hpc' = "raised"
    /\ UNCHANGED <<last_result, result, printed, evaluated, coro, i, awaits, produced, content>>
    /\ UNCHANGED <<msg, handled, sent, pgVars, bootVars, sanVars>>

(***************************************************************************)
(* Dev.maybe_await, dev.py 111-118, and Dev.debug, dev.py 186-205.         *)
(***************************************************************************)
\* inspect.isawaitable(v)
IsAwaitable(v) == v.layers > 0

\* what "await v" gives when it raises nothing
Resolve(v) == [layers |-> v.layers - 1, final |-> v.final]

\* the loop of lines 113-115 without its bound
MaybeAwaitContinuesUnbounded(k, v) == IsAwaitable(v)

\* lines 113-114: the loop goes round again, for i in range(2), and awaits
MaybeAwaitContinues(k, v) == k < 2 /\ IsAwaitable(v)

\* where debug awaits user code
DebugInUserCode ==
    \/ hpc = "debug"
    \/ hpc = "maybe_await" /\ MaybeAwaitContinues(i, coro)

\* lines 193-194: the expression compiles and eval() returns a value;
\* maybe_await is entered
DebugEvaluated ==
    /\ hpc = "debug"
    /\ \E n \in 0..MaxLayers, f \in FinalValues :
          /\ evaluated' = [layers |-> n, final |-> f]
          /\ coro' = [layers |-> n, final |-> f]
    /\ i' = 0
    /\ awaits' = 0
    /\ hpc' = "maybe_await"
    /\ UNCHANGED <<last_result, result, printed, exc, produced, content>>
    /\ UNCHANGED <<msg, handled, sent, pgVars, bootVars, sanVars>>

\* lines 114-115: coro = await coro
MaybeAwaitAwait ==
    /\ hpc = "maybe_await"
    /\ MaybeAwaitContinues(i, coro)
    /\ coro' = Resolve(coro)
    /\ awaits' = awaits + 1
    /\ i' = i + 1
    /\ UNCHANGED <<last_result, result, printed, exc, evaluated, produced, content>>
    /\ UNCHANGED <<hpc, msg, handled, sent, pgVars, bootVars, sanVars>>

\* lines 117-118: maybe_await returns coro, which line 194 binds to result
MaybeAwaitReturn ==
    /\ hpc = "maybe_await"
    /\ ~MaybeAwaitContinues(i, coro)
    /\ result' = coro
    /\ hpc' = "debug_post"
    /\ UNCHANGED <<last_result, printed, exc, evaluated, coro, i, awaits, produced, content>>
    /\ UNCHANGED <<msg, handled, sent, pgVars, bootVars, sanVars>>

\* lines 195-197: compiling, evaluating or awaiting raises SyntaxError
DebugSyntaxError ==
    /\ DebugInUserCode
    /\ \E e \in ErrTexts :
          /\ produced' = e
          /\ content' = e
    /\ exc' = "SyntaxError"
    /\ hpc' = "send_blocks"
    /\ UNCHANGED <<last_result, result, printed, evaluated, coro, i, awaits>>
    /\ UNCHANGED <<msg, handled, sent, pgVars, bootVars, sanVars>>

\* lines 198-200: it raises another Exception; the traceback goes to send_blocks
DebugFails ==
    /\ DebugInUserCode
    /\ \E tb \in ErrTexts :
          /\ produced' = tb
          /\ content' = tb
    /\ exc' = "Exception"
    /\ hpc' = "send_blocks"
    /\ UNCHANGED <<last_result, result, printed, evaluated, coro, i, awaits>>
    /\ UNCHANGED <<msg, handled, sent, pgVars, bootVars, sanVars>>

\* lines 192-198: it raises what neither except clause catches
DebugRaises ==
    /\ DebugInUserCode
    /\ exc' = "BaseException"
    /\ hpc' = "raised"
    /\ UNCHANGED <<last_result, result, printed, evaluated, coro, i, awaits, produced, content>>
    /\ UNCHANGED <<msg, handled, sent, pgVars, bootVars, sanVars>>

\* lines 202-205, up to the call of send_blocks
DebugReport ==
    /\ hpc = "debug_post"
    /\ last_result' = result
    /\ produced' = Str(result)
    /\ content' = SanitizeOutput(client[1], Str(result))
    /\ hpc' = "send_blocks"
    /\ UNCHANGED <<result, printed, exc, evaluated, coro, i, awaits>>
    /\ UNCHANGED <<msg, handled, sent, pgVars, bootVars, sanVars>>

(***************************************************************************)
(* The parts of the state a specification does not run.                    *)
(***************************************************************************)
PgIdle ==
    /\ in_text = <<>> /\ delims = <<>> /\ priority = FALSE
    /\ page_length = 0 /\ shorten_by = 0
    /\ closest_delim = None /\ to_send = <<>> /\ pg_pc = "idle" /\ pages = <<>>

BootIdle ==
    /\ boot = "idle" /\ PREFIX = <<>> /\ client = None /\ connects = 0 /\ closes = 0

HandlerIdle ==
    /\ hpc = "idle" /\ msg = NoMessage /\ handled = 0 /\ sent = <<>>

LocalsFresh ==
    /\ result = PyNone /\ printed = <<>> /\ exc = "None" /\ evaluated = PyNone
    /\ coro = PyNone /\ i = 0 /\ awaits = 0 /\ produced = <<>> /\ content = <<>>

DevIdle ==
    /\ last_result = PyNone
    /\ LocalsFresh

SanIdle ==
    /\ input_ = <<>> /\ output = None

(***************************************************************************)
(* pagify called with free parameters and iterated to exhaustion.          *)
(***************************************************************************)
SeqsUpTo(S, n) == UNION {[1..k -> S] : k \in 0..n}

PgAlphabet == {"a", " ", "\n"}

DelimLists ==
    { <<<<"\n">>>>,                \* the default
      <<<<" ">>, <<"\n">>>>,
      <<<<"\n">>, <<" ">>>>,
      <<<<"a", "\n">>>>,           \* a delimiter of two characters
      <<<<>>>>,                    \* the empty delimiter
      <<>> }                       \* no delimiter at all

PagifyInit ==
    /\ in_text \in SeqsUpTo(PgAlphabet, MaxTextLen)
    /\ delims \in DelimLists
    /\ priority \in BOOLEAN
    /\ page_length \in 0..MaxPage
    /\ shorten_by \in 0..MaxShorten
    /\ closest_delim = None /\ to_send = <<>> /\ pg_pc = "start" /\ pages = <<>>
    /\ BootIdle /\ HandlerIdle /\ DevIdle /\ SanIdle

PagifyNext ==
    \/ PagifyStart
    \/ PagifyWhile
    \/ PagifyBody
    \/ PagifyTail
    \/ Collect

PagifySpec == PagifyInit /\ [][PagifyNext]_vars

\* the generator is resumed whenever it can take a step
PagifyFairSpec == PagifySpec /\ WF_vars(PagifyNext)

(* C5: with page_length > shorten_by, no chunk pagify yields is longer than  *)
(* page_length - shorten_by, no delimiter search returns position 0, and     *)
(* every split point is at an index >= 1, so that each iteration cuts a      *)
(* chunk of at least one character off the remaining text.                   *)
C5_PagifyBound ==
    (pg_pc \notin {"idle", "start"} /\ page_length >= 1) =>
        /\ \A k \in 1..Len(pages) : Len(pages[k]) <= page_length
        /\ pg_pc \in {"yield", "yield_last"} => Len(to_send) <= page_length
        /\ pg_pc = "body" =>
              \A j \in 1..Len(delims) :
                  DelimSearch(in_text, delims, page_length)[j] # 0
        /\ closest_delim # None =>
              /\ closest_delim[1] >= 1
              /\ closest_delim[1] <= page_length
              /\ pg_pc \in {"while", "body", "tail", "yield"} =>
                    Len(to_send) = closest_delim[1]

\* the text was cut at a delimiter, short of the boundary, into several chunks
C5_Witness ==
    /\ pg_pc = "done"
    /\ page_length >= 2
    /\ Len(pages) >= 2
    /\ closest_delim # None
    /\ closest_delim[1] < page_length

(* C6: for any text and any page_length and shorten_by, iterating pagify to  *)
(* exhaustion ends: the generator finishes (or raises) after finitely many   *)
(* chunks.                                                                   *)
C6_PagifyTerminates == <>(pg_pc \in {"done", "raised"})

\* what does hold: the iteration ends whenever page_length > shorten_by
PagifyTerminatesWhenPositive ==
    (pg_pc = "start" /\ page_length > shorten_by) => <>(pg_pc \in {"done", "raised"})

(***************************************************************************)
(* sanitize_output called on its own, for either authentication mode.      *)
(***************************************************************************)
SanAlphabet == {"T", "k", "t", "K", "x"}

\* lines 24-27 of __main__.py: the token is the bot token or the session token
Clients ==
    { [token |-> Some(TOKEN), session_token |-> None],
      [token |-> None, session_token |-> Some(TOKEN)] }

SanitizeInit ==
    /\ input_ \in SeqsUpTo(SanAlphabet, MaxSanLen)
    /\ output = None
    /\ boot = "sanitize" /\ PREFIX = <<>> /\ client \in {Some(c) : c \in Clients}
    /\ connects = 0 /\ closes = 0
    /\ PgIdle /\ HandlerIdle /\ DevIdle

SanitizeNext == SanitizeCall

SanitizeSpec == SanitizeInit /\ [][SanitizeNext]_vars

(***************************************************************************)
(* send_blocks called on its own with texts about one page long.           *)
(***************************************************************************)
BigTexts ==
    { MkText(n, k) : n \in (PageChars - MaxOver)..(PageChars + MaxOver),
                     k \in {0, 1, 2, PageChars - 1, PageChars, PageChars + 1} }

SendBlocksInit ==
    /\ hpc = "send_blocks" /\ msg = NoMessage /\ handled = 0 /\ sent = <<>>
    /\ boot = "running" /\ PREFIX = <<"!">> /\ client \in {Some(c) : c \in Clients}
    /\ connects = 1 /\ closes = 0
    /\ last_result = PyNone
    /\ result = PyNone /\ printed = <<>> /\ exc = "None" /\ evaluated = PyNone
    /\ coro = PyNone /\ i = 0 /\ awaits = 0
    /\ content \in BigTexts
    /\ produced = content
    /\ PgIdle /\ SanIdle

SendBlocksNext ==
    \/ SendBlocksCall
    \/ PagifyStart
    \/ PagifyWhile
    \/ PagifyBody
    \/ PagifyTail
    \/ SendPage
    \/ SendBlocksReturn

SendBlocksSpec == SendBlocksInit /\ [][SendBlocksNext]_vars

(***************************************************************************)
(* The program: start-up, then the messages, one invocation of on_message  *)
(* at a time.                                                              *)
(***************************************************************************)
Init ==
    /\ boot = "env"
    /\ PREFIX \in SeqsUpTo({"!", " "}, MaxPrefixLen)
    /\ client = None /\ connects = 0 /\ closes = 0
    /\ PgIdle /\ HandlerIdle /\ DevIdle /\ SanIdle

Next ==
    \/ CheckPrefix
    \/ MakeClient
    \/ Start
    \/ OnMessage
    \/ PingSend
    \/ ShutdownSend
    \/ ShutdownClose
    \/ EvalCompiled
    \/ EvalSyntaxError
    \/ EvalCompileRaises
    \/ EvalReturns
    \/ EvalFails
    \/ EvalRunRaises
    \/ DebugEvaluated
    \/ MaybeAwaitAwait
    \/ MaybeAwaitReturn
    \/ DebugSyntaxError
    \/ DebugFails
    \/ DebugRaises
    \/ DebugReport
    \/ SendBlocksCall
    \/ PagifyStart
    \/ PagifyWhile
    \/ PagifyBody
    \/ PagifyTail
    \/ SendPage
    \/ SendBlocksReturn

Spec == Init /\ [][Next]_vars

(* C2: a message whose text is the prefix followed by "shutdown" produces,   *)
(* from a sender who is not the owner, no outbound message and no close of   *)
(* the connection; from the owner, exactly one outbound message, "Shutting   *)
(* down...", and after that send exactly one close of the connection.        *)
C2_ShutdownRouting ==
    (boot \in {"running", "closed"} /\ msg.content = Some(PREFIX \o Shutdown)) =>
        IF msg.author_id # OwnerId
        THEN sent = <<>> /\ closes = 0
        ELSE /\ closes <= 1
             /\ closes = 1 => sent = <<SendContent(ShuttingDown)>>
             /\ hpc = "returned" =>
                   sent = <<SendContent(ShuttingDown)>> /\ closes = 1

\* what does hold: the routing of C2 under every prefix free of whitespace
ShutdownRoutingCleanPrefix ==
    (\A k \in 1..Len(PREFIX) : ~IsSpace(PREFIX[k])) => C2_ShutdownRouting

\* the owner's shutdown was answered and the connection closed
ShutdownServed ==
    /\ msg.author_id = OwnerId
    /\ msg.content = Some(PREFIX \o Shutdown)
    /\ hpc = "returned"
    /\ closes = 1

EvalSuccessStep  == hpc = "eval_run" /\ hpc' = "send_blocks" /\ exc' = "None"
DebugSuccessStep == hpc = "debug_post" /\ hpc' = "send_blocks"

(* C3 as amended: last-result changes only in a step in which eval or debug  *)
(* succeeds; debug's success always stores the value it produced; eval's     *)
(* success stores the value the body returned unless that value is None, and *)
(* then leaves last-result as it was.  A body that fails to compile or       *)
(* raises leaves last-result as it was.                                      *)
C3_LastResultAmended ==
    [][ /\ (EvalSuccessStep /\ result' # PyNone) => last_result' = result'
        /\ (EvalSuccessStep /\ result' = PyNone) => last_result' = last_result
        /\ DebugSuccessStep => last_result' = result
        /\ exc' # "None" => last_result' = last_result
        /\ last_result' # last_result => (EvalSuccessStep \/ DebugSuccessStep)
      ]_vars

(* C3 as claimed: last-result is updated by an invocation if and only if it  *)
(* succeeds, and a success always sets it to the value produced, whatever    *)
(* that value is.                                                            *)
C3_LastResultOriginal ==
    [][ /\ EvalSuccessStep => last_result' = result'
        /\ DebugSuccessStep => last_result' = result
        /\ exc' # "None" => last_result' = last_result
        /\ last_result' # last_result => (EvalSuccessStep \/ DebugSuccessStep)
      ]_vars

\* an eval body returned None without failing, and the result stored by an
\* earlier invocation is still there
C3_Witness ==
    /\ Route(PREFIX, msg) = "eval"
    /\ hpc = "send_blocks"
    /\ exc = "None"
    /\ result = PyNone
    /\ last_result # PyNone

(* C4: maybe_await, as debug uses it, returns a value that is not awaitable  *)
(* as it is, without awaiting; it awaits at most twice; a value of two       *)
(* chained awaitable layers comes back resolved; of a value of three layers  *)
(* exactly two are awaited and the value that comes back is still awaitable. *)
C4_DoubleAwait ==
    /\ hpc = "maybe_await" =>
          /\ i <= 2
          /\ awaits = i
          /\ coro = [layers |-> evaluated.layers - awaits, final |-> evaluated.final]
    /\ hpc = "debug_post" =>
          /\ awaits = Min2(evaluated.layers, 2)
          /\ result = [layers |-> evaluated.layers - awaits, final |-> evaluated.final]
          /\ evaluated.layers = 0 => (awaits = 0 /\ result = evaluated)
          /\ evaluated.layers = 2 => (awaits = 2 /\ ~IsAwaitable(result))
          /\ evaluated.layers = 3 => (awaits = 2 /\ IsAwaitable(result))

\* maybe_await returned from a value of three layers
C4_Witness ==
    /\ hpc = "debug_post"
    /\ evaluated.layers = 3
    /\ awaits = 2
    /\ result.layers = 1

(* C8: no failure raised while compiling or running a submitted body leaves  *)
(* eval or debug: every one is caught in the console, an error text is sent  *)
(* to the channel, and the call returns normally.                            *)
C8_ErrorContainment ==
    /\ hpc # "raised"
    /\ (hpc = "returned" /\ exc # "None") => sent # <<>>

(* C9: start-up goes past the prefix check only with a prefix that is not    *)
(* empty and holds no whitespace anywhere; with any other prefix it aborts,  *)
(* before the client is constructed and before any connection attempt.       *)
C9_PrefixValidation ==
    /\ boot \in {"checked", "constructed", "running", "closed"} =>
          /\ PREFIX # <<>>
          /\ \A k \in 1..Len(PREFIX) : ~IsSpace(PREFIX[k])
    /\ boot = "aborted" => (client = None /\ connects = 0)

(* C10: every text eval or debug passes to send_blocks, on the success path  *)
(* and on each error path, has been through sanitize_output, so that no      *)
(* message the console sends holds the authentication token.                 *)
C10_RedactionEveryPath ==
    client # None =>
        /\ hpc = "send_blocks" => content = SanitizeOutput(client[1], produced)
        /\ \A k \in 1..Len(sent) : ~Contains(sent[k], ActiveToken(client[1]))

(* C7: every message send_blocks transmits (a chunk of pagify with the       *)
(* default settings, in its code fence, between the two marker glyphs) is at *)
(* most 2000 characters long, the default page_length.                       *)
C7_MessageSize ==
    \A k \in 1..Len(sent) : Len(sent[k]) <= DefaultPageLength

(* C1: a result text that contains the active token, in any letter case,    *)
(* one or more times comes back from sanitize_output with no occurrence of   *)
(* the token and at least one occurrence of the placeholder.                 *)
C1_Redaction ==
    (output # None /\ ContainsAnyCase(input_, ActiveToken(client[1]))) =>
        /\ ~Contains(output[1], ActiveToken(client[1]))
        /\ Contains(output[1], Placeholder)

====
